---- MODULE Spec2Model ----
(***************************************************************************)
(* Model of the location core of the healthcare assistant:                 *)
(* maptiler_service.py (geocode_address, calculate_distance,               *)
(* find_nearby_pharmacies, get_stockholm_pharmacies), of the webhook       *)
(* receiver webhook.py, and of the telephony operations of elks_service.py *)
(* with the session handlers of voice_healthcare_app.py that call them.    *)
(*                                                                         *)
(* Units.  A coordinate is a pair of integers in 1e-4 degrees              *)
(* (59.3293 is 593293).  A distance and a radius are integers in 0.01 km   *)
(* (5 km is 500), so round(distance, 1) is rounding to a multiple of 10.   *)
(* A string is a sequence of one-character strings.                        *)
(***************************************************************************)
EXTENDS Integers, Sequences, FiniteSets, TLC

\* the state of one geocode_address or find_nearby_pharmacies call
VARIABLES pc, entry, address, radius_km, coordinates, geoResp, nearbyResp,
          geoRequests, nearbyRequests, path, result

\* the webhook receiver: the two files it appends to, the requests it has
\* handled and its last response
VARIABLES call_log, notifications, posts, http_status, http_body

\* a sequence of find_nearby_pharmacies calls: the catalog list as the last
\* call found it and left it, and the (arguments, answer, result) seen so far
VARIABLES catalog_at_start, catalog, seen

\* two points and the distances measured between them
VARIABLES pt_a, pt_b, measured

\* a phone number and what format_phone_number made of it, applied once and
\* applied again to its own result
VARIABLES phone_arg, phone_out

\* the session of voice_healthcare_app.py: the profile's phone, the selected
\* pharmacy, the two histories, the number of interactions so far, and the
\* last interaction: the handler that ran, or the telephony operation it
\* called with its arguments, and that operation's outcome
VARIABLES user_phone, current_pharmacy, conversation_history,
          reservation_history, interactions, last_call, last_result

mvars == <<pc, entry, address, radius_km, coordinates, geoResp, nearbyResp,
           geoRequests, nearbyRequests, path, result>>

wvars == <<call_log, notifications, posts, http_status, http_body>>

cvars == <<catalog_at_start, catalog, seen>>

dvars == <<pt_a, pt_b, measured>>

pvars == <<phone_arg, phone_out>>

tvars == <<user_phone, current_pharmacy, conversation_history,
           reservation_history, interactions, last_call, last_result>>

vars == <<mvars, wvars, cvars, dvars, pvars, tvars>>

\* ---------------------------------------------------------------- bounds
\* longest feature list a provider answers with
MaxFeatures == 2

\* ---------------------------------------------------------------- strings
UpperChars == <<"A","B","C","D","E","F","G","H","I","J","K","L","M","N","O",
                "P","Q","R","S","T","U","V","W","X","Y","Z","Å","Ä","Ö">>

LowerChars == <<"a","b","c","d","e","f","g","h","i","j","k","l","m","n","o",
                "p","q","r","s","t","u","v","w","x","y","z","å","ä","ö">>

\* str.lower() on one character
LowerChar(c) ==
    IF \E i \in 1..Len(UpperChars) : UpperChars[i] = c
    THEN LowerChars[CHOOSE i \in 1..Len(UpperChars) : UpperChars[i] = c]
    ELSE c

\* str.lower()
lower(s) == [i \in 1..Len(s) |-> LowerChar(s[i])]

\* pat in s
Contains(s, pat) ==
    \E i \in 1..(Len(s) - Len(pat) + 1) : SubSeq(s, i, i + Len(pat) - 1) = pat

\* the address None: a one-element sequence whose element is no character
None == <<"None">>

\* not address
Falsy(a) == a = None \/ Len(a) = 0

STOCKHOLM == <<"s","t","o","c","k","h","o","l","m">>

SERGELS_TORG == <<"s","e","r","g","e","l","s"," ","t","o","r","g">>

GAMLA_STAN == <<"g","a","m","l","a"," ","s","t","a","n">>

DJURGARDEN == <<"d","j","u","r","g","å","r","d","e","n">>

\* ------------------------------------------------------------ coordinates
DefaultCoord == <<593293, 180686>>

SergelsTorgCoord == <<593327, 180649>>

GamlaStanCoord == <<593254, 180718>>

DjurgardenCoord == <<593249, 181186>>

\* ---------------------------------------------------------------- distance
Abs(x) == IF x < 0 THEN -x ELSE x

RECURSIVE ISqrtIn(_, _, _)
\* the integer square root of n, searched in lo..hi
ISqrtIn(n, lo, hi) ==
    IF lo >= hi THEN lo
    ELSE LET mid == (lo + hi + 1) \div 2
         IN  IF mid * mid <= n THEN ISqrtIn(n, mid, hi)
             ELSE ISqrtIn(n, lo, mid - 1)

\* math.sqrt, on integers
ISqrt(n) == ISqrtIn(n, 0, 46340)

\* R * math.radians(1e-4 degree), in 1e-6 km: the arc of one coordinate unit
ArcPerUnit == 11119

\* 10000 * math.cos(math.radians(lat)), linear around 59.3 degrees
Cos4(lat) == 5105 - ((15 * (lat - 593000)) \div 1000)

\* calculate_distance with cos(lat1) squared in the place of
\* cos(lat1) * cos(lat2)
calculate_distance_cos_lat1(lat1, lon1, lat2, lon2) ==
    LET dlon == Abs(lon2 - lon1)
        dlat == Abs(lat2 - lat1)
        y    == (ArcPerUnit * dlat) \div 10000
        x    == (ArcPerUnit * dlon) \div 10000
        a    == y * y + ((x * Cos4(lat1)) \div 10000) * ((x * Cos4(lat1)) \div 10000)
    IN  ISqrt(a)

\* Haversine with R = 6371.0 in fixed point, sin x = x and atan2 as the
\* small-angle arc: distance^2 = (R dlat)^2 + cos(lat1) cos(lat2) (R dlon)^2
calculate_distance(lat1, lon1, lat2, lon2) ==
    LET dlon == Abs(lon2 - lon1)
        dlat == Abs(lat2 - lat1)
        y    == (ArcPerUnit * dlat) \div 10000
        x    == (ArcPerUnit * dlon) \div 10000
        a    == y * y + ((x * Cos4(lat1)) \div 10000) * ((x * Cos4(lat2)) \div 10000)
    IN  ISqrt(a)

\* round(distance, 1) with distance in 0.01 km: nearest multiple of 10,
\* an exact tie going to the even tenth
round1(d) ==
    LET q == d \div 10
        r == d % 10
    IN  IF r < 5 THEN 10 * q
        ELSE IF r > 5 THEN 10 * (q + 1)
        ELSE IF q % 2 = 0 THEN 10 * q ELSE 10 * (q + 1)

\* ------------------------------------------------------------------- sort
RECURSIVE InsertByDistanceTiesFirst(_, _)
\* InsertByDistance with p placed before the elements of its own distance
InsertByDistanceTiesFirst(s, p) ==
    IF s = <<>> THEN <<p>>
    ELSE IF p.distance <= Head(s).distance THEN <<p>> \o s
    ELSE <<Head(s)>> \o InsertByDistanceTiesFirst(Tail(s), p)

RECURSIVE InsertByDistance(_, _)
\* p placed after every element of the sorted s whose distance is <= p's
InsertByDistance(s, p) ==
    IF s = <<>> THEN <<p>>
    ELSE IF p.distance < Head(s).distance THEN <<p>> \o s
    ELSE <<Head(s)>> \o InsertByDistance(Tail(s), p)

\* SortByDistance with the sort left out
Unsorted(s) == s

RECURSIVE SortByDistance(_)
\* list.sort(key=lambda x: x["distance"]): ascending and stable
SortByDistance(s) ==
    IF s = <<>> THEN <<>>
    ELSE InsertByDistance(SortByDistance(SubSeq(s, 1, Len(s) - 1)), s[Len(s)])

\* [p for p in s if test], for a set of kept positions
RECURSIVE FilterSeq(_, _, _)
FilterSeq(s, keep, i) ==
    IF i > Len(s) THEN <<>>
    ELSE (IF i \in keep THEN <<s[i]>> ELSE <<>>) \o FilterSeq(s, keep, i + 1)

\* ------------------------------------------------------- fallback catalog
stockholm_pharmacies ==
    << [name |-> "Apoteket Hjärtat",  address |-> "Sergels Torg 12, Stockholm",
        coordinates |-> <<593327, 180649>>, phone |-> "+46812345678"],
       [name |-> "Kronans Apotek",    address |-> "Drottninggatan 65, Stockholm",
        coordinates |-> <<593336, 180627>>, phone |-> "+46823456789"],
       [name |-> "Apotek Fönix",      address |-> "Kungsgatan 32, Stockholm",
        coordinates |-> <<593356, 180551>>, phone |-> "+46834567890"],
       [name |-> "Lloyds Apotek",     address |-> "Birger Jarlsgatan 22, Stockholm",
        coordinates |-> <<593361, 180711>>, phone |-> "+46845678901"],
       [name |-> "Apotea Cityapotek", address |-> "Sveavägen 24, Stockholm",
        coordinates |-> <<593376, 180605>>, phone |-> "+46856789012"],
       [name |-> "Apoteksgruppen",    address |-> "Odengatan 50, Stockholm",
        coordinates |-> <<593468, 180621>>, phone |-> "+46867890123"],
       [name |-> "Apotek ICA Maxi",   address |-> "Kungens Kurva, Stockholm",
        coordinates |-> <<592751, 179254>>, phone |-> "+46878901234"] >>

\* the radius the fallback filters with, in 0.01 km
FallbackRadius == 500

\* the number of entries returned when none is within FallbackRadius
FallbackCount == 3

\* LocalCatalog with the list kept from one call to the next, as a list
\* defined once outside the function would be
LocalCatalogKept(previous) ==
    IF previous = <<>> THEN stockholm_pharmacies ELSE previous

\* the list get_stockholm_pharmacies works on: the list display of lines
\* 136-179 builds a new list on every call, whatever list the previous call
\* left behind
LocalCatalog(previous) == stockholm_pharmacies

\* the loop of lines 182-185: pharmacy["distance"] = round(distance, 1) set
\* on each entry of the list cat
SetDistances(cat, lat, lon) ==
    [i \in 1..Len(cat) |->
        LET p == cat[i]
        IN  [name |-> p.name, address |-> p.address,
             distance |-> round1(calculate_distance(lat, lon,
                                    p.coordinates[1], p.coordinates[2])),
             coordinates |-> p.coordinates, phone |-> p.phone]]

\* the catalog of a first call with its distances set
WithDistance(lat, lon) == SetDistances(LocalCatalog(<<>>), lat, lon)

\* lines 190-195: the entries within FallbackRadius of the sorted list, or
\* its first FallbackCount entries when there is none
NearbyOrFirst(sorted) ==
    LET nearby_pharmacies ==
            FilterSeq(sorted,
                      {i \in 1..Len(sorted) : sorted[i].distance <= FallbackRadius}, 1)
    IN  IF nearby_pharmacies = <<>>
        THEN SubSeq(sorted, 1, FallbackCount)
        ELSE nearby_pharmacies

get_stockholm_pharmacies(lat, lon) ==
    NearbyOrFirst(SortByDistance(WithDistance(lat, lon)))

\* --------------------------------------------------------- geocode_address
\* LocalCoordinate with the substring tests made on the address as typed
LocalCoordinateCaseSensitive(a) ==
    IF Falsy(a) THEN <<DefaultCoord>>
    ELSE IF Contains(a, STOCKHOLM) /\ Contains(a, SERGELS_TORG)
         THEN <<SergelsTorgCoord>>
    ELSE IF Contains(a, STOCKHOLM) /\ Contains(a, GAMLA_STAN)
         THEN <<GamlaStanCoord>>
    ELSE IF Contains(a, STOCKHOLM) /\ Contains(a, DJURGARDEN)
         THEN <<DjurgardenCoord>>
    ELSE <<>>

\* LocalCoordinate with the test for an empty address left out: None makes
\* address.lower() raise, an empty string reaches the request
LocalCoordinateNoEmptyTest(a) ==
    IF a = None THEN <<DefaultCoord>>
    ELSE IF Contains(lower(a), STOCKHOLM) /\ Contains(lower(a), SERGELS_TORG)
         THEN <<SergelsTorgCoord>>
    ELSE IF Contains(lower(a), STOCKHOLM) /\ Contains(lower(a), GAMLA_STAN)
         THEN <<GamlaStanCoord>>
    ELSE IF Contains(lower(a), STOCKHOLM) /\ Contains(lower(a), DJURGARDEN)
         THEN <<DjurgardenCoord>>
    ELSE <<>>

\* the part of geocode_address before the request: <<coordinate>> when the
\* address is answered locally, <<>> when the provider has to be asked
LocalCoordinate(a) ==
    IF Falsy(a) THEN <<DefaultCoord>>
    ELSE IF Contains(lower(a), STOCKHOLM) /\ Contains(lower(a), SERGELS_TORG)
         THEN <<SergelsTorgCoord>>
    ELSE IF Contains(lower(a), STOCKHOLM) /\ Contains(lower(a), GAMLA_STAN)
         THEN <<GamlaStanCoord>>
    ELSE IF Contains(lower(a), STOCKHOLM) /\ Contains(lower(a), DJURGARDEN)
         THEN <<DjurgardenCoord>>
    ELSE <<>>

\* CoordinateFromResponse with the except branch returning (lon, lat)
CoordinateFromResponseSwapped(resp) ==
    IF resp.exc THEN <<DefaultCoord[2], DefaultCoord[1]>>
    ELSE IF resp.status_code = 200
         THEN IF resp.json = "invalid" THEN <<DefaultCoord[2], DefaultCoord[1]>>
              ELSE IF resp.json # "features" THEN DefaultCoord
              ELSE IF Len(resp.features) = 0 THEN DefaultCoord
              ELSE IF ~resp.features[1].geometry THEN <<DefaultCoord[2], DefaultCoord[1]>>
              ELSE <<resp.features[1].coordinates[2], resp.features[1].coordinates[1]>>
    ELSE DefaultCoord

\* CoordinateFromResponse reading the last feature instead of the first
CoordinateFromResponseLast(resp) ==
    IF resp.exc THEN DefaultCoord
    ELSE IF resp.status_code = 200
         THEN IF resp.json # "features" THEN DefaultCoord
              ELSE IF Len(resp.features) = 0 THEN DefaultCoord
              ELSE IF ~resp.features[Len(resp.features)].geometry THEN DefaultCoord
              ELSE <<resp.features[Len(resp.features)].coordinates[2],
                     resp.features[Len(resp.features)].coordinates[1]>>
    ELSE DefaultCoord

\* the part of geocode_address after requests.get: resp.exc is a raised
\* exception, resp.json is "invalid" when response.json() raises and
\* "nofeatures" when the body has no "features" key
CoordinateFromResponse(resp) ==
    IF resp.exc THEN DefaultCoord
    ELSE IF resp.status_code = 200
         THEN IF resp.json # "features" THEN DefaultCoord
              ELSE IF Len(resp.features) = 0 THEN DefaultCoord
              ELSE IF ~resp.features[1].geometry THEN DefaultCoord
              ELSE <<resp.features[1].coordinates[2], resp.features[1].coordinates[1]>>
    ELSE DefaultCoord

\* -------------------------------------------------- find_nearby_pharmacies
\* a key missing from a feature's properties
Absent == "<absent>"

\* the JSON value null of a key that is present: None in Python
Null == "<null>"

\* dict.get(key, default)
Get(value, default) == IF value = Absent THEN default ELSE value

\* the positions of the features whose properties have no "phone": the only
\* ones whose generate_swedish_phone() value properties.get does not discard
NoPhone(features) == {i \in 1..Len(features) : features[i].phone = Absent}

\* the pharmacy built from feature f at distance d; gen is the number
\* generate_swedish_phone() returned for it
PharmacyOf(f, d, gen) ==
    [name |-> Get(f.name, "Unknown Pharmacy"),
     address |-> Get(f.full_address, "Address not available"),
     distance |-> round1(d),
     coordinates |-> <<f.coordinates[2], f.coordinates[1]>>,
     phone |-> Get(f.phone, gen)]

\* WithinRadius with the radius test left out
WithinRadiusAlways(distance, radius) == TRUE

\* distance <= radius_km
WithinRadius(distance, radius) == distance <= radius

\* the loop over result["features"]: the pharmacies within the radius
PharmaciesWithin(features, lat, lon, radius, gens) ==
    LET dist(i) == calculate_distance(lat, lon, features[i].coordinates[2],
                                      features[i].coordinates[1])
        gen(i) == IF i \in DOMAIN gens THEN gens[i] ELSE Absent
        all == [i \in 1..Len(features) |-> PharmacyOf(features[i], dist(i), gen(i))]
    IN  FilterSeq(all, {i \in 1..Len(features) : WithinRadius(dist(i), radius)}, 1)

\* what find_nearby_pharmacies returns on a non-200 status: the try block
\* ends without a return statement
NoReturnValue == [type |-> "None", value |-> <<>>, path |-> "fallthrough"]

Fallback(lat, lon, why) ==
    [type |-> "list", value |-> get_stockholm_pharmacies(lat, lon), path |-> why]

\* find_nearby_pharmacies after requests.get
NearbyResult(resp, lat, lon, radius, gens) ==
    IF resp.exc THEN Fallback(lat, lon, "fallback_exception")
    ELSE IF resp.status_code = 200
         THEN IF resp.json = "invalid" THEN Fallback(lat, lon, "fallback_exception")
              ELSE IF resp.json = "nofeatures" \/ Len(resp.features) = 0
                   THEN Fallback(lat, lon, "fallback_noresults")
              ELSE IF \E i \in 1..Len(resp.features) : ~resp.features[i].geometry
                   THEN Fallback(lat, lon, "fallback_exception")
              ELSE LET pharmacies ==
                           PharmaciesWithin(resp.features, lat, lon, radius, gens)
                   IN  IF pharmacies # <<>>
                       THEN [type |-> "list", value |-> SortByDistance(pharmacies),
                             path |-> "live"]
                       ELSE Fallback(lat, lon, "fallback_noresults")
    ELSE NoReturnValue

\* ----------------------------------------------------------------- inputs
AddressHeads ==
    { <<>>,
      <<"S","e","r","g","e","l","s"," ","T","o","r","g">>,
      <<"G","A","M","L","A"," ","S","T","A","N">>,
      <<"D","j","u","r","g","å","r","d","e","n">>,
      <<"g","a","m","l","a"," ","s","t","a","n"," ","s","e","r","g","e","l","s"," ","t","o","r","g">>,
      <<"K","i","s","t","a">> }

AddressTails ==
    { <<>>,
      <<",", " ", "S","t","o","c","k","h","o","l","m">>,
      <<" ","S","T","O","C","K","H","O","L","M"," ","1","1","1"," ","5","7">> }

Addresses == {h \o t : h \in AddressHeads, t \in AddressTails} \cup {None}

\* "Sergels Torg, Stockholm"
SergelsTorgStockholm ==
    <<"S","e","r","g","e","l","s"," ","T","o","r","g",",", " ",
      "S","t","o","c","k","h","o","l","m">>

\* the radius_km values of a call, in 0.01 km
Radii == {50, 148, 500}

\* the sequences over S of length at most n
SeqsUpTo(S, n) == UNION {[1..k -> S] : k \in 0..n}

NoFeatures == <<>>

Response(exc, status, json, features) ==
    [exc |-> exc, status_code |-> status, json |-> json, features |-> features]

\* the answers of a provider whose feature lists are drawn from pool
Responses(pool) ==
    {Response(TRUE, 0, "none", NoFeatures)}
    \cup {Response(FALSE, st, "none", NoFeatures) : st \in {401, 500}}
    \cup {Response(FALSE, 200, j, NoFeatures) : j \in {"invalid", "nofeatures"}}
    \cup {Response(FALSE, 200, "features", f) : f \in SeqsUpTo(pool, MaxFeatures)}

\* features of the geocoding provider, coordinates as [lon, lat]
GeoFeaturePool ==
    { [geometry |-> TRUE,  coordinates |-> <<176000, 590500>>],
      [geometry |-> TRUE,  coordinates |-> <<180600, 594000>>],
      [geometry |-> FALSE, coordinates |-> <<>>] }

\* features of the nearby-search provider, coordinates as [lon, lat]
NearbyFeaturePool ==
    { [geometry |-> TRUE, coordinates |-> <<180700, 593300>>, name |-> "Apotek A",
       full_address |-> "Hamngatan 1, Stockholm", phone |-> "+46811111111"],
      [geometry |-> TRUE, coordinates |-> <<180500, 593200>>, name |-> Absent,
       full_address |-> Absent, phone |-> Absent],
      [geometry |-> TRUE, coordinates |-> <<180502, 593200>>, name |-> "Apotek C",
       full_address |-> "Hornsgatan 3, Stockholm", phone |-> Null],
      [geometry |-> FALSE, coordinates |-> <<>>, name |-> "Apotek D",
       full_address |-> Absent, phone |-> Absent] }

\* the numbers generate_swedish_phone() can return
GeneratedPhones == {"+46701000000", "+46799999999"}

NoResponse == Response(FALSE, 0, "none", NoFeatures)

NoResult == [type |-> "pending", value |-> <<>>]

\* ---------------------------------------------------------------- actions
MaptilerIdle ==
    /\ pc = "idle"
    /\ entry = "none"
    /\ address = <<>>
    /\ radius_km = 500
    /\ coordinates = <<>>
    /\ geoResp = NoResponse
    /\ nearbyResp = NoResponse
    /\ geoRequests = 0
    /\ nearbyRequests = 0
    /\ path = "none"
    /\ result = NoResult

\* no request handled yet, both files empty
WebhookEmpty ==
    /\ call_log = <<>>
    /\ notifications = <<>>
    /\ posts = <<>>
    /\ http_status = 0
    /\ http_body = ""

\* no call made yet
CallsFresh ==
    /\ catalog_at_start = <<>>
    /\ catalog = <<>>
    /\ seen = {}

DistanceUnset ==
    /\ pt_a = DefaultCoord
    /\ pt_b = DefaultCoord
    /\ measured = <<>>

\* format_phone_number not called yet
PhoneUnset ==
    /\ phone_arg = <<>>
    /\ phone_out = <<>>

\* "+46701234567", the phone of the profile a session starts with
DefaultUserPhone == <<"+","4","6","7","0","1","2","3","4","5","6","7">>

\* st.session_state.current_pharmacy = None; has_phone tells whether a
\* pharmacy dict has the key "phone"
NoPharmacy == [name |-> "<none>", has_phone |-> FALSE, phone |-> <<>>]

\* no answer: the provider was not asked
NoTelResponse == [exc |-> FALSE, status_code |-> 0, json |-> "none"]

\* no interaction yet
NoCall == [op |-> "none", user_phone |-> <<>>, pharmacy |-> NoPharmacy,
           resp |-> NoTelResponse]

NoOutcome == [raised |-> "", success |-> FALSE, message |-> "<absent>",
              call_id |-> "<absent>", reservation_id |-> "<absent>",
              call_type |-> "<absent>", sms_id |-> "<absent>"]

\* the session state of lines 311-341, after the welcome message of the
\* first run
SessionStarted ==
    /\ user_phone = DefaultUserPhone
    /\ current_pharmacy = NoPharmacy
    /\ conversation_history = <<"welcome">>
    /\ reservation_history = <<>>
    /\ interactions = 0
    /\ last_call = NoCall
    /\ last_result = NoOutcome

Init ==
    /\ MaptilerIdle /\ WebhookEmpty /\ CallsFresh /\ DistanceUnset
    /\ PhoneUnset /\ SessionStarted

\* a caller enters geocode_address(a)
CallGeocode(a) ==
    /\ pc = "idle"
    /\ pc' = "geocode"
    /\ entry' = "geocode_address"
    /\ address' = a
    /\ UNCHANGED <<radius_km, coordinates, geoResp, nearbyResp, geoRequests,
                   nearbyRequests, path, result>>
    /\ UNCHANGED <<wvars, cvars, dvars, pvars, tvars>>

\* a caller enters find_nearby_pharmacies(a, r), which enters geocode_address(a)
CallFindNearby(a, r) ==
    /\ pc = "idle"
    /\ pc' = "geocode"
    /\ entry' = "find_nearby_pharmacies"
    /\ address' = a
    /\ radius_km' = r
    /\ UNCHANGED <<coordinates, geoResp, nearbyResp, geoRequests,
                   nearbyRequests, path, result>>
    /\ UNCHANGED <<wvars, cvars, dvars, pvars, tvars>>

\* geocode_address has its coordinate c: it returns, to its caller or into
\* find_nearby_pharmacies
GeocodeReturns(c) ==
    /\ coordinates' = c
    /\ IF entry = "geocode_address"
       THEN pc' = "done" /\ result' = [type |-> "tuple", value |-> c]
       ELSE pc' = "nearby" /\ UNCHANGED result

\* geocode_address up to requests.get: answered locally, or the request is sent
GeocodeLocal ==
    /\ pc = "geocode"
    /\ IF LocalCoordinate(address) # <<>>
       THEN GeocodeReturns(LocalCoordinate(address)[1]) /\ UNCHANGED geoRequests
       ELSE /\ pc' = "geo_wait"
            /\ geoRequests' = geoRequests + 1
            /\ UNCHANGED <<coordinates, result>>
    /\ UNCHANGED <<entry, address, radius_km, geoResp, nearbyResp,
                   nearbyRequests, path>>
    /\ UNCHANGED <<wvars, cvars, dvars, pvars, tvars>>

\* requests.get of geocode_address answers with resp
GeocodeResponse(resp) ==
    /\ pc = "geo_wait"
    /\ geoResp' = resp
    /\ GeocodeReturns(CoordinateFromResponse(resp))
    /\ UNCHANGED <<entry, address, radius_km, nearbyResp, geoRequests,
                   nearbyRequests, path>>
    /\ UNCHANGED <<wvars, cvars, dvars, pvars, tvars>>

\* find_nearby_pharmacies from the return of geocode_address to requests.get
NearbySend ==
    /\ pc = "nearby"
    /\ IF coordinates = <<>>
       THEN /\ pc' = "done"
            /\ result' = [type |-> "list", value |-> <<>>]
            /\ UNCHANGED nearbyRequests
       ELSE /\ pc' = "nearby_wait"
            /\ nearbyRequests' = nearbyRequests + 1
            /\ UNCHANGED result
    /\ UNCHANGED <<entry, address, radius_km, coordinates, geoResp, nearbyResp,
                   geoRequests, path>>
    /\ UNCHANGED <<wvars, cvars, dvars, pvars, tvars>>

\* requests.get of find_nearby_pharmacies answers with resp
NearbyResponse(resp, gens) ==
    /\ pc = "nearby_wait"
    /\ nearbyResp' = resp
    /\ \E r \in {NearbyResult(resp, coordinates[1], coordinates[2], radius_km, gens)} :
           /\ result' = [type |-> r.type, value |-> r.value]
           /\ path' = r.path
    /\ pc' = "done"
    /\ UNCHANGED <<entry, address, radius_km, coordinates, geoResp, geoRequests,
                   nearbyRequests>>
    /\ UNCHANGED <<wvars, cvars, dvars, pvars, tvars>>

\* the caller has the result; the next call starts from scratch
Return ==
    /\ pc = "done"
    /\ pc' = "idle"
    /\ entry' = "none"
    /\ address' = <<>>
    /\ radius_km' = 500
    /\ coordinates' = <<>>
    /\ geoResp' = NoResponse
    /\ nearbyResp' = NoResponse
    /\ geoRequests' = 0
    /\ nearbyRequests' = 0
    /\ path' = "none"
    /\ result' = NoResult
    /\ UNCHANGED <<wvars, cvars, dvars, pvars, tvars>>

Next ==
    \/ \E a \in Addresses : CallGeocode(a)
    \/ \E a \in Addresses, r \in Radii : CallFindNearby(a, r)
    \/ GeocodeLocal
    \/ \E resp \in Responses(GeoFeaturePool) : GeocodeResponse(resp)
    \/ NearbySend
    \/ \E resp \in Responses(NearbyFeaturePool) :
          \E gens \in [NoPhone(resp.features) -> GeneratedPhones] :
              NearbyResponse(resp, gens)
    \/ Return

Spec == Init /\ [][Next]_vars

\* ------------------------------------------------------------ vocabulary
FindNearbyDone == pc = "done" /\ entry = "find_nearby_pharmacies"

GeocodeDone == pc = "done" /\ entry = "geocode_address"

\* the fallback catalog was returned
OnFallback == path \in {"fallback_exception", "fallback_noresults"}

\* the distance of a returned pharmacy p to the origin, before rounding
TrueDistance(p) ==
    calculate_distance(coordinates[1], coordinates[2],
                       p.coordinates[1], p.coordinates[2])

\* the catalog positions whose entry lies within r of the origin
CatalogWithin(r) ==
    {i \in 1..Len(stockholm_pharmacies) : TrueDistance(stockholm_pharmacies[i]) <= r}

Names(s) == {s[i].name : i \in 1..Len(s)}

\* ----------------------------------------------------------------- claims
\* C1: find_nearby_pharmacies returns a non-empty sequence of pharmacies for
\* every address, radius and provider behaviour, never an empty list and
\* never a missing value.
C1_AlwaysNonEmptyList ==
    FindNearbyDone => (result.type = "list" /\ Len(result.value) > 0)

\* C2: when the fallback catalog is used and at least one catalog entry lies
\* within the caller's radius_km, the result is exactly the catalog entries
\* whose distance is <= radius_km.
C2_FallbackUsesCallerRadius ==
    (FindNearbyDone /\ OnFallback /\ CatalogWithin(radius_km) # {})
        => Names(result.value) =
               {stockholm_pharmacies[i].name : i \in CatalogWithin(radius_km)}

\* the three failure modes of the nearby-search provider
NearbyFailed ==
    \/ nearbyResp.exc
    \/ nearbyResp.status_code # 200
    \/ nearbyResp.json = "features" /\ nearbyResp.features = <<>>

\* C3: a non-200 status, a raised exception and a 200 answer with an empty
\* feature list all give the same result for the same origin: the ranked
\* fallback catalog.
C3_FailureModesAlike ==
    (FindNearbyDone /\ NearbyFailed)
        => result = [type |-> "list",
                     value |-> get_stockholm_pharmacies(coordinates[1], coordinates[2])]

\* the landmark names with their coordinates, in the order they are tested
Landmarks ==
    << [name |-> SERGELS_TORG, coord |-> <<593327, 180649>>],
       [name |-> GAMLA_STAN,   coord |-> <<593254, 180718>>],
       [name |-> DJURGARDEN,   coord |-> <<593249, 181186>>] >>

\* the landmarks whose name the address contains, case-insensitively
LandmarksIn(a) ==
    {i \in 1..Len(Landmarks) : ~Falsy(a) /\ Contains(lower(a), Landmarks[i].name)}

NamesStockholm(a) == ~Falsy(a) /\ Contains(lower(a), STOCKHOLM)

\* the first landmark of the address, in the order of Landmarks
FirstLandmark(a) == CHOOSE i \in LandmarksIn(a) : \A j \in LandmarksIn(a) : i <= j

\* geocode_address has produced its coordinate
Geocoded == coordinates # <<>>

\* C4: for an address containing a landmark name as a case-insensitive
\* substring, geocode_address returns that landmark's coordinate and sends no
\* request to the geocoding provider, whatever else the address contains.
C4_LandmarkAlwaysOverrides ==
    LandmarksIn(address) # {}
        => /\ geoRequests = 0
           /\ Geocoded => \E i \in LandmarksIn(address) : coordinates = Landmarks[i].coord

\* C4 (amended): for an address containing "stockholm" and a landmark name,
\* both as case-insensitive substrings, geocode_address sends no request and
\* returns the coordinate of the first contained landmark in the order
\* sergels torg, gamla stan, djurgården.
C4_LandmarkOverridesInStockholm ==
    (NamesStockholm(address) /\ LandmarksIn(address) # {})
        => /\ geoRequests = 0
           /\ Geocoded => coordinates = Landmarks[FirstLandmark(address)].coord
           /\ GeocodeDone => result = [type |-> "tuple",
                                       value |-> Landmarks[FirstLandmark(address)].coord]

\* an address naming two landmarks and Stockholm is answered with the first one
C4_Witness ==
    /\ GeocodeDone
    /\ Cardinality(LandmarksIn(address)) = 2
    /\ \E i \in 1..Len(address) : address[i] = "S"
    /\ result.value = <<593327, 180649>>
    /\ geoRequests = 0

\* C5: geocode_address("Sergels Torg, Stockholm") returns (59.3327, 18.0649)
\* and sends no request to the geocoding provider.
C5_SergelsTorgStockholm ==
    address = SergelsTorgStockholm
        => /\ geoRequests = 0
           /\ Geocoded => coordinates = <<593327, 180649>>
           /\ GeocodeDone => result = [type |-> "tuple", value |-> <<593327, 180649>>]

C5_Witness ==
    /\ GeocodeDone
    /\ address = SergelsTorgStockholm
    /\ result.value = <<593327, 180649>>

\* the geocoding request raised, was answered with a non-200 status, or with
\* a 200 whose body has no first feature with a geometry
GeocodeFailed ==
    /\ geoRequests = 1
    /\ pc # "geo_wait"
    /\ \/ geoResp.exc
       \/ geoResp.status_code # 200
       \/ geoResp.json # "features"
       \/ geoResp.features = <<>>
       \/ ~geoResp.features[1].geometry

\* C6: for a non-empty address without an override, a geocoding request that
\* raises, returns a non-200 status, no features or a malformed body makes
\* geocode_address return the default coordinate (59.3293, 18.0686); nothing
\* is raised.
C6_FailureGivesDefault ==
    GeocodeFailed
        => /\ coordinates = <<593293, 180686>>
           /\ GeocodeDone => result = [type |-> "tuple", value |-> <<593293, 180686>>]

C6_Witness ==
    /\ GeocodeDone
    /\ GeocodeFailed
    /\ geoResp.exc
    /\ ~Falsy(address)
    /\ result.value = <<593293, 180686>>

\* C7: for an empty or missing address geocode_address returns the default
\* coordinate (59.3293, 18.0686) and sends no request.
C7_EmptyAddressDefault ==
    (entry # "none" /\ Falsy(address))
        => /\ geoRequests = 0
           /\ pc # "geo_wait"
           /\ Geocoded => coordinates = <<593293, 180686>>
           /\ GeocodeDone => result = [type |-> "tuple", value |-> <<593293, 180686>>]

C7_Witness ==
    /\ GeocodeDone
    /\ address = <<>>
    /\ result.value = <<593293, 180686>>
    /\ geoRequests = 0

\* C8: on the live path every returned pharmacy's reported distance, the
\* value rounded to one decimal, is <= radius_km.
C8_ReportedWithinRadius ==
    (FindNearbyDone /\ path = "live")
        => \A i \in 1..Len(result.value) : result.value[i].distance <= radius_km

\* radius rounded up to a multiple of 0.1 km
CeilTenth(r) == 10 * ((r + 9) \div 10)

\* C8 (amended): on the live path every returned pharmacy's computed distance
\* is <= radius_km, and its reported distance is <= radius_km rounded up to
\* one decimal.
C8_ComputedWithinRadius ==
    (FindNearbyDone /\ path = "live")
        => \A i \in 1..Len(result.value) :
               /\ TrueDistance(result.value[i]) <= radius_km
               /\ result.value[i].distance <= CeilTenth(radius_km)

\* a live result whose reported distance is above a radius of 1.48 km
C8_Witness ==
    /\ FindNearbyDone
    /\ path = "live"
    /\ radius_km = 148
    /\ \E i \in 1..Len(result.value) :
           /\ result.value[i].distance > radius_km
           /\ TrueDistance(result.value[i]) <= radius_km

\* s is in ascending order of the true distance to the origin
AscendingTrue(s) ==
    \A i, j \in 1..Len(s) : i < j => TrueDistance(s[i]) <= TrueDistance(s[j])

\* C9: when neither the live provider nor the fallback catalog has an entry
\* within the radius, the result is exactly three entries, the three catalog
\* entries closest to the origin, in ascending order of distance.
C9_ThreeNearest ==
    (FindNearbyDone /\ OnFallback /\ CatalogWithin(radius_km) = {})
        => /\ Len(result.value) = 3
           /\ AscendingTrue(result.value)
           /\ \A i \in 1..Len(stockholm_pharmacies) :
                  stockholm_pharmacies[i].name \notin Names(result.value)
                      => \A k \in 1..Len(result.value) :
                             TrueDistance(result.value[k])
                                 <= TrueDistance(stockholm_pharmacies[i])

CoordsAt(s, d) ==
    LET group == FilterSeq(s, {i \in 1..Len(s) : s[i].distance = d}, 1)
    IN  [i \in 1..Len(group) |-> group[i].coordinates]

\* the provider's features within the radius whose reported distance is d, as
\* (lat, lon) in the order of the feature list
FeatureCoordsAt(d) ==
    LET f == nearbyResp.features
        dist(i) == calculate_distance(coordinates[1], coordinates[2],
                                      f[i].coordinates[2], f[i].coordinates[1])
        group == FilterSeq(f, {i \in 1..Len(f) :
                                  dist(i) <= radius_km /\ round1(dist(i)) = d}, 1)
    IN  [i \in 1..Len(group) |-> <<group[i].coordinates[2], group[i].coordinates[1]>>]

\* the catalog entries whose reported distance is d, in the order of definition
CatalogCoordsAt(d) ==
    LET c == stockholm_pharmacies
        group == FilterSeq(c, {i \in 1..Len(c) : round1(TrueDistance(c[i])) = d}, 1)
    IN  [i \in 1..Len(group) |-> group[i].coordinates]

IsPrefix(s, t) == Len(s) <= Len(t) /\ SubSeq(t, 1, Len(s)) = s

\* C11: returned pharmacies of equal distance keep the order of the input:
\* the provider's feature list on the live path, the catalog's definition
\* order on the fallback path.
C11_TiesKeepInputOrder ==
    (FindNearbyDone /\ result.type = "list")
        => \A k \in 1..Len(result.value) :
               LET d == result.value[k].distance
               IN  /\ path = "live" => CoordsAt(result.value, d) = FeatureCoordsAt(d)
                   /\ OnFallback => IsPrefix(CoordsAt(result.value, d), CatalogCoordsAt(d))

\* two live results of equal reported distance, the farther one first as in
\* the feature list
C11_Witness ==
    /\ FindNearbyDone
    /\ path = "live"
    /\ Len(result.value) = 2
    /\ result.value[1].distance = result.value[2].distance
    /\ TrueDistance(result.value[1]) > TrueDistance(result.value[2])
    /\ nearbyResp.features[1].coordinates[1] = result.value[1].coordinates[2]

\* the nearby-search provider answered 200 with a list of features
AnsweredFeatures ==
    ~nearbyResp.exc /\ nearbyResp.status_code = 200 /\ nearbyResp.json = "features"

\* the positions of the provider's features that lie within radius_km
FeaturesWithin ==
    {i \in 1..Len(nearbyResp.features) :
        /\ nearbyResp.features[i].geometry
        /\ calculate_distance(coordinates[1], coordinates[2],
                              nearbyResp.features[i].coordinates[2],
                              nearbyResp.features[i].coordinates[1]) <= radius_km}

\* the result holds one pharmacy per feature within the radius, and nothing else
OnePerFeatureWithin ==
    /\ result.type = "list"
    /\ Len(result.value) = Cardinality(FeaturesWithin)
    /\ \A i \in FeaturesWithin :
           LET c == <<nearbyResp.features[i].coordinates[2],
                      nearbyResp.features[i].coordinates[1]>>
           IN  Cardinality({k \in 1..Len(result.value) : result.value[k].coordinates = c})
                   = Cardinality({j \in FeaturesWithin :
                                     nearbyResp.features[j].coordinates
                                         = nearbyResp.features[i].coordinates})
    /\ Names(result.value) \cap Names(stockholm_pharmacies) = {}

C13_NoRetryThenFallback ==
    /\ geoRequests <= 1
    /\ nearbyRequests <= 1
    /\ GeocodeFailed => coordinates = <<593293, 180686>>
    /\ (FindNearbyDone /\ NearbyFailed)
           => /\ nearbyRequests = 1
              /\ result.type = "list"
              /\ OnFallback

\* the steps the interpreter takes by itself; no provider is bound to answer
LiveSpec ==
    /\ Spec
    /\ WF_vars(GeocodeLocal)
    /\ WF_vars(NearbySend)
    /\ WF_vars(Return)

\* C14: every geocode_address and find_nearby_pharmacies call eventually
\* returns, even when a provider accepts the request and never answers.
C14_EveryCallReturns == (pc # "idle") ~> (pc = "done")

\* ================================================================ webhook
\* the number of requests the receiver handles
MaxPosts == 3

\* the values of a form field, as sequences of tokens; "\n" is a line feed
FieldValues == { <<"answered">>, <<"ongoing">>, <<"busy", "\n", "failed">> }

\* request.form.to_dict(): the fields 'status' and 'id', each present or not
Payloads ==
    [status : FieldValues \cup {<<Absent>>}, id : {<<"c1">>, <<Absent>>}]

\* EscapeTokens with the control characters written as they are
EscapeNothing(v) == v

\* the JSON string escapes of json.dump
EscapeTokens(v) ==
    [i \in 1..Len(v) |-> IF v[i] = "\n" THEN "\\n"
                         ELSE IF v[i] = "\"" THEN "\\\"" ELSE v[i]]

\* one "key": "value" member
Member(key, v) == <<"\"", key, "\"", ": ", "\"">> \o EscapeTokens(v) \o <<"\"">>

\* json.dump(data, f): the text written for the dict data
JsonDump(data) ==
    LET st == IF data.status = <<Absent>> THEN <<>> ELSE Member("status", data.status)
        id == IF data.id = <<Absent>> THEN <<>> ELSE Member("id", data.id)
        sep == IF st # <<>> /\ id # <<>> THEN <<", ">> ELSE <<>>
    IN  <<"{">> \o st \o sep \o id \o <<"}">>

\* data.get('status') == 'answered'
IsAnswered(data) == data.status = <<"answered">>

\* webhook(): one POST handled from the first line to the response.  The
\* line is appended to call_log.json first; for an answered call the
\* f-string of line 24 reads the name datetime, which webhook.py never
\* imports: NameError, nothing is written to notifications.txt and Flask
\* answers 500
Webhook(data) ==
    /\ Len(posts) < MaxPosts
    /\ posts' = Append(posts, data)
    /\ call_log' = call_log \o JsonDump(data) \o <<"\n">>
    /\ IF IsAnswered(data)
       THEN /\ http_status' = 500
            /\ http_body' = "Internal Server Error"
       ELSE /\ http_status' = 200
            /\ http_body' = ""
    /\ UNCHANGED notifications
    /\ UNCHANGED <<mvars, cvars, dvars, pvars, tvars>>

NextWebhook == \E data \in Payloads : Webhook(data)

SpecWebhook == Init /\ [][NextWebhook]_vars

\* the position of the first line feed of f, 0 when there is none
FirstLineFeed(f) ==
    IF \E k \in 1..Len(f) : f[k] = "\n"
    THEN CHOOSE k \in 1..Len(f) : f[k] = "\n" /\ \A j \in 1..(k - 1) : f[j] # "\n"
    ELSE 0

RECURSIVE Lines(_)
\* the lines of the text f
Lines(f) ==
    IF f = <<>> THEN <<>>
    ELSE IF FirstLineFeed(f) = 0 THEN <<f>>
    ELSE <<SubSeq(f, 1, FirstLineFeed(f) - 1)>>
         \o Lines(SubSeq(f, FirstLineFeed(f) + 1, Len(f)))

\* C15: the webhook answers every POST with status 200 and an empty body,
\* whatever the form payload, a payload with status 'answered' included.
C15_AlwaysAnswers200 ==
    posts # <<>> => (http_status = 200 /\ http_body = "")

\* C16: for webhook POSTs handled one after another the call log is
\* append-only: after n requests it holds exactly n lines, line i being the
\* payload of the i-th request.
C16_OneLinePerRequest ==
    /\ Len(Lines(call_log)) = Len(posts)
    /\ \A i \in 1..Len(posts) :
           /\ Lines(call_log)[i] = JsonDump(posts[i])
           /\ (posts[i].status # <<Absent>>)
                  => \E k \in 1..Len(Lines(call_log)[i]) :
                         Lines(call_log)[i][k] = "status"

\* three requests logged, one with a line feed in a value, one answered
C16_Witness ==
    /\ Len(posts) = 3
    /\ Len(Lines(call_log)) = 3
    /\ \E i \in 1..3 : \E k \in 1..Len(posts[i].status) : posts[i].status[k] = "\n"
    /\ \E i \in 1..3 : IsAnswered(posts[i])

\* ========================================================= sequence of calls
\* "Djurgården, Stockholm"
DjurgardenStockholm ==
    <<"D","j","u","r","g","å","r","d","e","n",",", " ",
      "S","t","o","c","k","h","o","l","m">>

\* addresses geocode_address answers without a request
CallAddresses == {<<>>, SergelsTorgStockholm, DjurgardenStockholm}

CallRadii == {500}

\* the request raises, or is answered with one feature that has no phone
CallResponses ==
    {Response(TRUE, 0, "none", NoFeatures)}
    \cup {Response(FALSE, 200, "features", <<f>>) :
             f \in {g \in NearbyFeaturePool : g.geometry /\ g.phone = Absent}}

Observation(a, r, resp, type, value) ==
    [address |-> a, radius_km |-> r, resp |-> resp, type |-> type, value |-> value]

\* one whole find_nearby_pharmacies(a, r) call, the nearby-search request
\* being answered with resp; on the fallback path get_stockholm_pharmacies
\* builds its list, sets the distances and sorts it in place
FindNearbyCall(a, r, resp, gens) ==
    /\ LocalCoordinate(a) # <<>>
    /\ \E origin \in {LocalCoordinate(a)[1]} :
       \E res \in {NearbyResult(resp, origin[1], origin[2], r, gens)} :
          IF res.path \in {"fallback_exception", "fallback_noresults"}
          THEN \E start \in {LocalCatalog(catalog)} :
               \E sorted \in {SortByDistance(SetDistances(start, origin[1], origin[2]))} :
                  /\ catalog_at_start' = start
                  /\ catalog' = sorted
                  /\ seen' = seen \cup
                         {Observation(a, r, resp, res.type, NearbyOrFirst(sorted))}
          ELSE /\ UNCHANGED <<catalog_at_start, catalog>>
               /\ seen' = seen \cup {Observation(a, r, resp, res.type, res.value)}
    /\ UNCHANGED <<mvars, wvars, dvars, pvars, tvars>>

NextCalls ==
    \E a \in CallAddresses, r \in CallRadii, resp \in CallResponses :
        \E gens \in [NoPhone(resp.features) -> GeneratedPhones] :
            FindNearbyCall(a, r, resp, gens)

SpecCalls == Init /\ [][NextCalls]_vars

\* the names, addresses, coordinates and phones of a catalog list, in order
CatalogContents(cat) ==
    [i \in 1..Len(cat) |->
        <<cat[i].name, cat[i].address, cat[i].coordinates, cat[i].phone>>]

\* two calls with the same arguments and the same provider answer
SameCall(o1, o2) ==
    o1.address = o2.address /\ o1.radius_km = o2.radius_km /\ o1.resp = o2.resp

\* every call so far found the catalog as it is defined
CatalogAsDefined ==
    catalog_at_start # <<>>
        => CatalogContents(catalog_at_start) = CatalogContents(stockholm_pharmacies)

\* C17: find_nearby_pharmacies is stateless across calls: the result of a
\* call depends only on its arguments and on the provider's answers during
\* the call, and the catalog has the same contents at the start of every call.
C17_ResultDependsOnCallOnly ==
    /\ \A o1, o2 \in seen : SameCall(o1, o2) => o1.type = o2.type /\ o1.value = o2.value
    /\ CatalogAsDefined

\* a result with every generated placeholder number blanked
WithoutPlaceholders(value) ==
    [i \in 1..Len(value) |->
        IF value[i].phone \in GeneratedPhones
        THEN [value[i] EXCEPT !.phone = "placeholder"] ELSE value[i]]

\* C17 (amended): the same, apart from the random placeholder phone numbers
\* of the features that have no phone.
C17_ResultDependsOnCallButPlaceholders ==
    /\ \A o1, o2 \in seen :
           SameCall(o1, o2)
               => /\ o1.type = o2.type
                  /\ WithoutPlaceholders(o1.value) = WithoutPlaceholders(o2.value)
    /\ CatalogAsDefined

\* the same call seen with two placeholder numbers, and fallback calls from
\* two origins, the last one finding the catalog after the other had sorted it
C17_Witness ==
    /\ \E o1, o2 \in seen : SameCall(o1, o2) /\ o1.value # o2.value
    /\ \E o1, o2 \in seen :
           /\ o1.resp.exc /\ o2.resp.exc
           /\ o1.address # o2.address
           /\ o1.value # o2.value
    /\ catalog_at_start # <<>>
    /\ catalog # <<>>
    /\ CatalogContents(catalog) # CatalogContents(stockholm_pharmacies)

\* C18: every returned pharmacy carries a non-empty phone number: a feature
\* without a usable phone value gets a generated placeholder, and is not
\* dropped.
C18_EveryPhoneUsable ==
    (FindNearbyDone /\ result.type = "list")
        => /\ \A k \in 1..Len(result.value) :
                  result.value[k].phone \notin {Absent, Null, ""}
           /\ path = "live" => Len(result.value) = Cardinality(FeaturesWithin)

\* C19: when the geocoding provider answers 200 with a non-empty feature
\* list, geocode_address returns the coordinate of the first feature only, as
\* (latitude, longitude), the provider's [lon, lat] swapped; later features
\* have no influence.
C19_FirstFeatureSwapped ==
    (GeocodeDone /\ geoRequests = 1 /\ ~geoResp.exc /\ geoResp.status_code = 200
        /\ geoResp.json = "features" /\ geoResp.features # <<>>
        /\ geoResp.features[1].geometry)
        => result = [type |-> "tuple",
                     value |-> <<geoResp.features[1].coordinates[2],
                                 geoResp.features[1].coordinates[1]>>]

\* two features answered, the second one elsewhere or without a geometry
C19_Witness ==
    /\ GeocodeDone
    /\ geoRequests = 1
    /\ Len(geoResp.features) = 2
    /\ geoResp.features[1].geometry
    /\ geoResp.features[2] # geoResp.features[1]
    /\ result.value[1] = geoResp.features[1].coordinates[2]
    /\ result.value[2] = geoResp.features[1].coordinates[1]
    /\ result.value[1] > result.value[2]

\* =============================================================== distance
\* points of the search box 17.5,59.0,18.5,59.5 of line 89: its corners, the
\* catalog entries, the default coordinate and the landmarks
Points ==
    {stockholm_pharmacies[i].coordinates : i \in 1..Len(stockholm_pharmacies)}
    \cup {DefaultCoord, SergelsTorgCoord, GamlaStanCoord, DjurgardenCoord}
    \cup {<<590000, 175000>>, <<595000, 185000>>, <<590000, 185000>>, <<590500, 176000>>}

InitDistance ==
    /\ MaptilerIdle /\ WebhookEmpty /\ CallsFresh
    /\ PhoneUnset /\ SessionStarted
    /\ pt_a \in Points
    /\ pt_b \in Points
    /\ measured = <<>>

\* calculate_distance applied to the two points, both ways, and to each
\* point and itself
Measure ==
    /\ measured = <<>>
    /\ measured' = << calculate_distance(pt_a[1], pt_a[2], pt_b[1], pt_b[2]),
                      calculate_distance(pt_b[1], pt_b[2], pt_a[1], pt_a[2]),
                      calculate_distance(pt_a[1], pt_a[2], pt_a[1], pt_a[2]),
                      calculate_distance(pt_b[1], pt_b[2], pt_b[1], pt_b[2]) >>
    /\ UNCHANGED <<pt_a, pt_b>>
    /\ UNCHANGED <<mvars, wvars, cvars, pvars, tvars>>

NextDistance == Measure

SpecDistance == InitDistance /\ [][NextDistance]_vars

\* C20: calculate_distance is symmetric and zero on identical points:
\* distance(a, b) = distance(b, a) and distance(a, a) = 0.
C20_SymmetricAndZero ==
    measured # <<>>
        => /\ measured[1] = measured[2]
           /\ measured[3] = 0
           /\ measured[4] = 0
           /\ pt_a = pt_b => measured[1] = 0

\* two points of different latitude and longitude measured both ways
C20_Witness ==
    /\ measured # <<>>
    /\ pt_a[1] # pt_b[1]
    /\ pt_a[2] # pt_b[2]
    /\ measured[1] > 1000
    /\ measured[2] > 1000

\* ==================================================== format_phone_number
\* longest phone number formatted
MaxPhoneLen == 3

\* the characters str.isdigit() is true of: the decimal digits and, among
\* others, the superscript digits
DigitChars == {"0", "1", "2", "3", "4", "5", "6", "7", "8", "9", "²"}

\* the characters of a phone number as typed
PhoneChars == {"+", " ", "-", "0", "4", "6", "7", "²"}

\* str.isdigit on one character
isdigit(c) == c \in DigitChars

\* phone.startswith(prefix)
StartsWith(phone, prefix) ==
    Len(phone) >= Len(prefix) /\ SubSeq(phone, 1, Len(prefix)) = prefix

\* phone[1:]
Tail1(phone) == SubSeq(phone, 2, Len(phone))

\* the three branches of lines 23-29
WithCountryCode(phone) ==
    IF ~StartsWith(phone, <<"+">>)
    THEN IF StartsWith(phone, <<"4", "6">>) THEN <<"+">> \o phone
         ELSE IF StartsWith(phone, <<"0">>) THEN <<"+", "4", "6">> \o Tail1(phone)
         ELSE <<"+", "4", "6">> \o phone
    ELSE phone

\* format_phone_number with line 20 left out: the number is kept as typed
format_phone_number_as_typed(phone) == WithCountryCode(phone)

\* format_phone_number on a string: line 20 keeps the characters that are
\* digits, the '+' is dropped with the rest, then lines 23-29
format_phone_number(phone) == WithCountryCode(SelectSeq(phone, isdigit))

\* filter(str.isdigit, None) raises TypeError
FormatRaises(phone) == phone = None

PhoneStrings == SeqsUpTo(PhoneChars, MaxPhoneLen)

InitPhone ==
    /\ MaptilerIdle /\ WebhookEmpty /\ CallsFresh /\ DistanceUnset
    /\ SessionStarted
    /\ phone_arg \in PhoneStrings
    /\ phone_out = <<>>

\* format_phone_number applied to the number, then to its own result
FormatPhone ==
    /\ Len(phone_out) < 2
    /\ phone_out' = Append(phone_out,
                       format_phone_number(IF phone_out = <<>> THEN phone_arg
                                           ELSE phone_out[Len(phone_out)]))
    /\ UNCHANGED phone_arg
    /\ UNCHANGED <<mvars, wvars, cvars, dvars, tvars>>

NextPhone == FormatPhone

SpecPhone == InitPhone /\ [][NextPhone]_vars

\* the digits of s, in order
DigitsOf(s) == SelectSeq(s, isdigit)

\* s is '+' followed by a country code: a digit other than 0
HasCountryCode(s) ==
    Len(s) >= 2 /\ s[1] = "+" /\ isdigit(s[2]) /\ s[2] # "0"

\* C22: format_phone_number adds the +46 country code only to numbers that
\* do not already start with '+': for an input that is '+' followed by a
\* country code, the result is '+' followed by the input's digits, with no
\* '46' inserted.
C22_PlusPrefixKept ==
    (phone_out # <<>> /\ HasCountryCode(phone_arg))
        => phone_out[1] = <<"+">> \o DigitsOf(phone_arg)

MaxInteractions == 3

\* the answers of the telephony provider to requests.post: the request
\* raises, or is answered with a status and a body; json is "id" for a JSON
\* object with an "id", "noid" for one without, "invalid" when
\* response.json() raises
TelResponses ==
    { [exc |-> TRUE, status_code |-> 0, json |-> "none"],
      [exc |-> FALSE, status_code |-> 200, json |-> "id"],
      [exc |-> FALSE, status_code |-> 200, json |-> "noid"],
      [exc |-> FALSE, status_code |-> 200, json |-> "invalid"],
      [exc |-> FALSE, status_code |-> 403, json |-> "invalid"] }

\* the operation raised an exception of this type to its caller
Raised(type) == [NoOutcome EXCEPT !.raised = type]

\* {"success": False, "message": message}
Failure(message) == [NoOutcome EXCEPT !.message = message]

\* call_info.get("id", "")
CallId(resp) == IF resp.json = "id" THEN "call-1" ELSE ""

\* whether the name datetime of lines 94 and 155 has an attribute now: it is
\* the module imported on line 3, not the class datetime.datetime, so
\* datetime.now() raises AttributeError
DatetimeHasNow == FALSE

\* the dict display of lines 90-96 and 151-157, built inside the try block:
\* evaluating "reservation_id" raises, and the except clause returns
AcceptedReservation(resp, call_type, ok, failed_exc) ==
    IF DatetimeHasNow
    THEN [NoOutcome EXCEPT !.success = TRUE, !.message = ok,
                           !.call_id = CallId(resp),
                           !.reservation_id = "res_<now>",
                           !.call_type = call_type]
    ELSE Failure(failed_exc)

\* the try block around requests.post, common to the four operations:
\* accepted is the value of the return statement of the 200 branch
AfterPost(resp, accepted, failed_status, failed_exc) ==
    IF resp.exc THEN Failure(failed_exc)
    ELSE IF resp.status_code = 200
         THEN IF resp.json = "invalid" THEN Failure(failed_exc) ELSE accepted
         ELSE Failure(failed_status)

\* pharmacy.get("phone", "")
PhoneOf(pharmacy) == IF pharmacy.has_phone THEN pharmacy.phone ELSE <<>>

make_reservation_call(phone, pharmacy, resp) ==
    IF FormatRaises(phone) \/ FormatRaises(PhoneOf(pharmacy))
    THEN Raised("TypeError")
    ELSE AfterPost(resp,
             AcceptedReservation(resp, "ivr", "Call initiated successfully",
                                 "Exception during call initiation"),
             "Failed to initiate call",
             "Exception during call initiation")

make_connect_reservation_call(phone, pharmacy, resp) ==
    IF FormatRaises(phone) \/ FormatRaises(PhoneOf(pharmacy))
    THEN Raised("TypeError")
    ELSE AfterPost(resp,
             AcceptedReservation(resp, "connect",
                                 "Connect call initiated successfully",
                                 "Exception during connect call initiation"),
             "Failed to initiate connect call",
             "Exception during connect call initiation")

notify_user_via_call(phone, resp) ==
    IF FormatRaises(phone)
    THEN Raised("TypeError")
    ELSE AfterPost(resp,
             [NoOutcome EXCEPT !.success = TRUE,
                               !.message = "Notification call initiated successfully",
                               !.call_id = CallId(resp)],
             "Failed to initiate notification call",
             "Exception during notification call")

send_reminder_sms(phone, resp) ==
    IF FormatRaises(phone)
    THEN Raised("TypeError")
    ELSE AfterPost(resp,
             [NoOutcome EXCEPT !.success = TRUE,
                               !.message = "SMS sent successfully",
                               !.sms_id = CallId(resp)],
             "Failed to send SMS",
             "Exception during SMS sending")

\* what the user types into the profile's phone field
UserPhones == {DefaultUserPhone, <<"0", "7", "0">>, <<>>}

\* st.session_state.pharmacies, as find_nearby_pharmacies returned it: a
\* pharmacy with a phone, with an empty phone, with the phone None of a
\* feature whose "phone" is null, and a dict without the key
SessionPharmacies ==
    { [name |-> "Apotek A", has_phone |-> TRUE, phone |-> <<"+", "4", "6", "8">>],
      [name |-> "Apotek B", has_phone |-> TRUE, phone |-> <<>>],
      [name |-> "Apotek C", has_phone |-> TRUE, phone |-> None],
      [name |-> "Apotek D", has_phone |-> FALSE, phone |-> <<>>] }

\* the handler name ran and called no telephony operation
Handled(name) == [NoCall EXCEPT !.op = name]

\* one more interaction of the session
Interaction ==
    /\ interactions < MaxInteractions
    /\ interactions' = interactions + 1

\* the text input of line 350
EditPhone(p) ==
    /\ Interaction
    /\ user_phone' = p
    /\ last_call' = Handled("edit_phone")
    /\ last_result' = NoOutcome
    /\ UNCHANGED <<current_pharmacy, conversation_history, reservation_history>>
    /\ UNCHANGED <<mvars, wvars, cvars, dvars, pvars>>

\* the button "Select <name>" of lines 513-521
SelectPharmacy(p) ==
    /\ Interaction
    /\ current_pharmacy' = p
    /\ last_call' = Handled("select_pharmacy")
    /\ last_result' = NoOutcome
    /\ UNCHANGED <<user_phone, conversation_history, reservation_history>>
    /\ UNCHANGED <<mvars, wvars, cvars, dvars, pvars>>

\* the entry of lines 564-573
ReservationEntry(pharmacy, r) ==
    [pharmacy |-> pharmacy.name, status |-> "Pending",
     reservation_id |-> r.reservation_id, call_id |-> r.call_id,
     call_type |-> r.call_type]

\* the button "Make Reservation Call" of lines 533-582, shown once a
\* pharmacy is selected; the provider answers the request with resp.  An
\* exception raised by the operation ends the script run
ClickMakeReservationCall(use_connect_call, resp) ==
    /\ Interaction
    /\ current_pharmacy # NoPharmacy
    /\ IF user_phone # <<>>
       THEN \E r \in { IF use_connect_call
                       THEN make_connect_reservation_call(user_phone, current_pharmacy, resp)
                       ELSE make_reservation_call(user_phone, current_pharmacy, resp) } :
               /\ last_call' = [op |-> IF use_connect_call
                                       THEN "make_connect_reservation_call"
                                       ELSE "make_reservation_call",
                                user_phone |-> user_phone,
                                pharmacy |-> current_pharmacy,
                                resp |-> resp]
               /\ last_result' = r
               /\ IF r.raised = "" /\ r.success
                  THEN /\ conversation_history' =
                              Append(conversation_history, "reservation")
                       /\ reservation_history' =
                              Append(reservation_history,
                                     ReservationEntry(current_pharmacy, r))
                  ELSE UNCHANGED <<conversation_history, reservation_history>>
       ELSE /\ last_call' = Handled("warning")
            /\ last_result' = NoOutcome
            /\ UNCHANGED <<conversation_history, reservation_history>>
    /\ UNCHANGED <<user_phone, current_pharmacy>>
    /\ UNCHANGED <<mvars, wvars, cvars, dvars, pvars>>

\* the button "Schedule SMS Reminder" of lines 584-596
ClickScheduleSmsReminder(resp) ==
    /\ Interaction
    /\ current_pharmacy # NoPharmacy
    /\ last_call' = [op |-> "send_reminder_sms", user_phone |-> user_phone,
                     pharmacy |-> NoPharmacy, resp |-> resp]
    /\ last_result' = send_reminder_sms(user_phone, resp)
    /\ UNCHANGED <<user_phone, current_pharmacy, conversation_history,
                   reservation_history>>
    /\ UNCHANGED <<mvars, wvars, cvars, dvars, pvars>>

\* notify_user_via_call called with the profile's phone
NotifyUser(resp) ==
    /\ Interaction
    /\ last_call' = [op |-> "notify_user_via_call", user_phone |-> user_phone,
                     pharmacy |-> NoPharmacy, resp |-> resp]
    /\ last_result' = notify_user_via_call(user_phone, resp)
    /\ UNCHANGED <<user_phone, current_pharmacy, conversation_history,
                   reservation_history>>
    /\ UNCHANGED <<mvars, wvars, cvars, dvars, pvars>>

\* the button "Clear Conversation" of lines 604-620 and the rerun it asks
\* for, which appends the welcome message again (lines 371-387)
ClearConversation ==
    /\ Interaction
    /\ conversation_history' = <<"welcome">>
    /\ last_call' = Handled("clear_conversation")
    /\ last_result' = NoOutcome
    /\ UNCHANGED <<user_phone, current_pharmacy, reservation_history>>
    /\ UNCHANGED <<mvars, wvars, cvars, dvars, pvars>>

\* the button "Help & Instructions" of lines 623-644
Help ==
    /\ Interaction
    /\ conversation_history' = Append(conversation_history, "help")
    /\ last_call' = Handled("help")
    /\ last_result' = NoOutcome
    /\ UNCHANGED <<user_phone, current_pharmacy, reservation_history>>
    /\ UNCHANGED <<mvars, wvars, cvars, dvars, pvars>>

NextTelephony ==
    \/ \E p \in UserPhones : EditPhone(p)
    \/ \E p \in SessionPharmacies : SelectPharmacy(p)
    \/ \E use_connect_call \in BOOLEAN, resp \in TelResponses :
           ClickMakeReservationCall(use_connect_call, resp)
    \/ \E resp \in TelResponses : ClickScheduleSmsReminder(resp)
    \/ \E resp \in TelResponses : NotifyUser(resp)
    \/ ClearConversation
    \/ Help

SpecTelephony == Init /\ [][NextTelephony]_vars

ReservationOps == {"make_reservation_call", "make_connect_reservation_call"}

TelephonyOps ==
    ReservationOps \cup {"notify_user_via_call", "send_reminder_sms"}

\* the provider answered the request with status 200 and a JSON object
AnsweredOK(resp) ==
    ~resp.exc /\ resp.status_code = 200 /\ resp.json # "invalid"

\* the last interaction was a reservation call the provider accepted
AcceptedReservationCall ==
    /\ last_call.op \in ReservationOps
    /\ last_result.raised = ""
    /\ AnsweredOK(last_call.resp)

\* C21: when the telephony provider answers the call request with status
\* 200, make_reservation_call and make_connect_reservation_call return a
\* result with success = True, the provider's call id, a reservation_id, and
\* call_type 'ivr' respectively 'connect'.
C21_AcceptedCallSucceeds ==
    AcceptedReservationCall
        => /\ last_result.success
           /\ last_result.call_id = CallId(last_call.resp)
           /\ last_result.reservation_id # "<absent>"
           /\ last_result.call_type =
                  IF last_call.op = "make_reservation_call"
                  THEN "ivr" ELSE "connect"

\* the last interaction was a click on "Make Reservation Call" that called
\* a reservation operation
ClickedReservation == last_call.op \in ReservationOps

\* C23: after any sequence of UI interactions, reservation_history is
\* append-only and gains exactly one entry with status 'Pending' per 'Make
\* Reservation Call' click for which the telephony provider accepted the
\* call (status 200); a click whose call fails leaves reservation_history
\* and conversation_history unchanged.
C23_OnePendingEntryPerAcceptedCall ==
    [][ interactions' # interactions
          => /\ IsPrefix(reservation_history, reservation_history')
             /\ AcceptedReservationCall'
                   => /\ Len(reservation_history') = Len(reservation_history) + 1
                      /\ reservation_history'[Len(reservation_history')].status
                             = "Pending"
             /\ ~AcceptedReservationCall'
                   => reservation_history' = reservation_history
             /\ (ClickedReservation' /\ ~AcceptedReservationCall')
                   => conversation_history' = conversation_history ]_vars

\* the provider did not accept the request: it raised, or the status is not 200
ProviderFailed(resp) == resp.exc \/ resp.status_code # 200

\* C24: the four telephony operations (make_reservation_call,
\* make_connect_reservation_call, notify_user_via_call, send_reminder_sms)
\* never raise to the caller: for every input, a pharmacy record with a
\* missing or null phone included, and every provider outcome (non-200
\* status, network exception), they return a result with success = False
\* and a message.
C24_NeverRaises ==
    last_call.op \in TelephonyOps
        => /\ last_result.raised = ""
           /\ ProviderFailed(last_call.resp)
                  => /\ ~last_result.success
                     /\ last_result.message # "<absent>"

====
